---- MODULE Spec2Model ----
(***************************************************************************)
(* Model of the seed-stock allocation and thresholding pipeline            *)
(* (core/data_processing.py, driven by app.py).                            *)
(*                                                                         *)
(* Floating-point values are modelled as pairs <<n, d>> with d >= 0:       *)
(*   d > 0       the finite value n/d in lowest terms,                     *)
(*   <<0, 0>>    not-a-number,                                             *)
(*   <<1, 0>>    +infinity,   <<-1, 0>>   -infinity.                       *)
(* Arithmetic follows IEEE-754 for the special values (x/0, 0/0, inf*0,    *)
(* comparisons with not-a-number are false); finite results are exact, so  *)
(* rounding error is not part of the model.  No divisor of the pipeline    *)
(* can be a negative zero for the non-negative inputs drawn here.          *)
(*                                                                         *)
(* Text cells are sequences of one-character strings.                      *)
(***************************************************************************)
EXTENDS Integers, Sequences, FiniteSets, TLC

VARIABLES
    pc,                  \* position of main() in the pipeline
    target_density,      \* app.py: number_input "Seeds/ha"
    chunk_size,          \* load_and_compute_kg_per_ha's chunk_size
    chosen_suppliers,    \* app.py: multiselect of supply types
    use_species_count,   \* app.py: checkbox
    use_relative_area,   \* app.py: distribute_area
    use_area_potential,  \* app.py: area_method = "Potential reforestation areas"
    n_species,           \* app.py: number_input "Top N species"
    df_species_req,      \* result of load_and_compute_kg_per_ha
    df_stocks,           \* result of load_stocks_data
    df_stocks_combined,  \* result of combine_suppliers
    df_merged,           \* result of merge_stock_and_kg_per_ha
    df_region_areas,     \* region table left-joined with the area table
    df_distributed,      \* result of distribute_stock
    df_valid,            \* compute_threshold_factor: filtered, sorted rows
    df_top_n,            \* compute_threshold_factor: head(n_species) per region
    df_threshold,        \* result of compute_threshold_factor
    df_count,            \* result of compute_species_count
    df_map,              \* final merged table
    in_str,              \* argument of a direct clean_number call
    out_clean,           \* its outcome
    in_seeds,            \* argument of a direct get_weight call
    out_weight           \* its result

vars == <<pc, target_density, chunk_size, chosen_suppliers, use_species_count,
          use_relative_area, use_area_potential, n_species,
          df_species_req, df_stocks, df_stocks_combined, df_merged,
          df_region_areas, df_distributed, df_valid, df_top_n, df_threshold,
          df_count, df_map, in_str, out_clean, in_seeds, out_weight>>

pipeVars == <<pc, target_density, chunk_size, chosen_suppliers, use_species_count,
              use_relative_area, use_area_potential, n_species,
              df_species_req, df_stocks, df_stocks_combined, df_merged,
              df_region_areas, df_distributed, df_valid, df_top_n, df_threshold,
              df_count, df_map>>

None == <<>>

----------------------------------------------------------------------------
(* Floating-point values *)

NaN == <<0, 0>>
PosInf == <<1, 0>>
NegInf == <<-1, 0>>

Abs(i) == IF i < 0 THEN -i ELSE i

Sgn(i) == IF i < 0 THEN -1 ELSE IF i > 0 THEN 1 ELSE 0

RECURSIVE GCD(_, _)
GCD(a, b) == IF b = 0 THEN a ELSE GCD(b, a % b)

\* the finite value n/d, d # 0, in lowest terms with a positive denominator
Norm(n, d) ==
    LET g == GCD(Abs(n), Abs(d))
    IN  <<(Sgn(d) * n) \div g, Abs(d) \div g>>

R(i) == <<i, 1>>

IsNaN(x) == x = NaN
IsInf(x) == x[2] = 0 /\ x[1] # 0
IsFinite(x) == x[2] > 0

FAdd(x, y) ==
    IF IsNaN(x) \/ IsNaN(y) THEN NaN
    ELSE IF IsInf(x) /\ IsInf(y) THEN (IF x = y THEN x ELSE NaN)
    ELSE IF IsInf(x) THEN x
    ELSE IF IsInf(y) THEN y
    ELSE Norm(x[1] * y[2] + y[1] * x[2], x[2] * y[2])

FMul(x, y) ==
    IF IsNaN(x) \/ IsNaN(y) THEN NaN
    ELSE IF IsInf(x) \/ IsInf(y)
         THEN (IF x[1] = 0 \/ y[1] = 0 THEN NaN ELSE <<Sgn(x[1]) * Sgn(y[1]), 0>>)
    ELSE Norm(x[1] * y[1], x[2] * y[2])

FDiv(x, y) ==
    IF IsNaN(x) \/ IsNaN(y) THEN NaN
    ELSE IF IsInf(y) THEN (IF IsInf(x) THEN NaN ELSE R(0))
    ELSE IF y[1] = 0 THEN (IF x[1] = 0 THEN NaN ELSE <<Sgn(x[1]), 0>>)
    ELSE IF IsInf(x) THEN <<Sgn(x[1]) * Sgn(y[1]), 0>>
    ELSE Norm(x[1] * y[2], x[2] * y[1])

\* x < y; false when either side is not-a-number
FLt(x, y) ==
    /\ ~IsNaN(x)
    /\ ~IsNaN(y)
    /\ IF IsInf(x) \/ IsInf(y)
       THEN x # y /\ (x = NegInf \/ y = PosInf)
       ELSE x[1] * y[2] < y[1] * x[2]

FLe(x, y) == ~IsNaN(x) /\ ~IsNaN(y) /\ (x = y \/ FLt(x, y))

FGt(x, y) == FLt(y, x)

----------------------------------------------------------------------------
(* clean_number *)

NA == <<"NA">>          \* a missing cell (pd.isna is true of it)
NBSP == "nbsp"          \* U+00A0
NNBSP == "nnbsp"        \* U+202F

Digits == {"0", "1", "2", "3", "4", "5", "6", "7", "8", "9"}

DigitVal(c) ==
    CASE c = "0" -> 0 [] c = "1" -> 1 [] c = "2" -> 2 [] c = "3" -> 3
      [] c = "4" -> 4 [] c = "5" -> 5 [] c = "6" -> 6 [] c = "7" -> 7
      [] c = "8" -> 8 [] c = "9" -> 9

\* str.replace(old, new) for a one-character old and a new of length <= 1
RECURSIVE Replace(_, _, _)
Replace(s, old, new) ==
    IF s = <<>> THEN <<>>
    ELSE (IF Head(s) = old THEN new ELSE <<Head(s)>>) \o Replace(Tail(s), old, new)

RECURSIVE DigitsVal(_)
DigitsVal(s) ==
    IF s = <<>> THEN 0 ELSE 10 * DigitsVal(SubSeq(s, 1, Len(s) - 1)) + DigitVal(s[Len(s)])

RECURSIVE Pow10(_)
Pow10(k) == IF k = 0 THEN 1 ELSE 10 * Pow10(k - 1)

AllDigits(s) == \A i \in 1..Len(s) : s[i] \in Digits

Raised == [raised |-> TRUE]
Returned(v) == [raised |-> FALSE, val |-> v]

\* Python's float(str) on the texts the model draws: "nan", and unsigned
\* decimals  digits[.digits] | .digits ; anything else is a ValueError.
PyFloat(s) ==
    IF s = <<"n", "a", "n">> THEN Returned(NaN)
    ELSE LET dots == {i \in 1..Len(s) : s[i] = "."}
         IN  IF dots = {}
             THEN IF s # <<>> /\ AllDigits(s) THEN Returned(R(DigitsVal(s))) ELSE Raised
             ELSE IF Cardinality(dots) > 1 THEN Raised
             ELSE LET p == CHOOSE i \in dots : TRUE
                      ip == SubSeq(s, 1, p - 1)
                      fp == SubSeq(s, p + 1, Len(s))
                  IN  IF AllDigits(ip) /\ AllDigits(fp) /\ Len(ip) + Len(fp) > 0
                      THEN Returned(Norm(DigitsVal(ip) * Pow10(Len(fp)) + DigitsVal(fp),
                                         Pow10(Len(fp))))
                      ELSE Raised

clean_number(num_str) ==
    IF num_str = NA THEN Returned(NaN)
    ELSE PyFloat(Replace(Replace(Replace(Replace(Replace(num_str,
                      NNBSP, <<>>), NBSP, <<>>), NNBSP, <<>>), ",", <<".">>), " ", <<>>))

\* Series.astype(str): a missing cell becomes the text "nan"
AsTypeStr(cell) == IF cell = NA THEN <<"n", "a", "n">> ELSE cell

----------------------------------------------------------------------------
(* get_weight *)

Half == <<1, 2>>

get_weight_strict(seeds_per_kg) ==
    IF FLt(seeds_per_kg, R(0)) THEN R(0)
    ELSE IF FLt(seeds_per_kg, R(500)) THEN Half
    ELSE IF FLt(seeds_per_kg, R(2000)) THEN R(1)
    ELSE IF FLt(seeds_per_kg, R(5000)) THEN R(2)
    ELSE IF FLt(seeds_per_kg, R(10000)) THEN R(4)
    ELSE IF FLt(seeds_per_kg, R(20000)) THEN R(8)
    ELSE IF FLt(seeds_per_kg, R(80000)) THEN R(10)
    ELSE IF FLt(seeds_per_kg, R(200000)) THEN R(12)
    ELSE R(14)

get_weight(seeds_per_kg) ==
    IF FLe(seeds_per_kg, R(0)) THEN R(0)
    ELSE IF FLe(seeds_per_kg, R(500)) THEN Half
    ELSE IF FLe(seeds_per_kg, R(2000)) THEN R(1)
    ELSE IF FLe(seeds_per_kg, R(5000)) THEN R(2)
    ELSE IF FLe(seeds_per_kg, R(10000)) THEN R(4)
    ELSE IF FLe(seeds_per_kg, R(20000)) THEN R(8)
    ELSE IF FLe(seeds_per_kg, R(80000)) THEN R(10)
    ELSE IF FLe(seeds_per_kg, R(200000)) THEN R(12)
    ELSE R(14)

----------------------------------------------------------------------------
(* Inputs the runs are drawn from *)

MaxN == 2               \* n_species ranges over 1..MaxN
MaxStrLen == 3          \* longest text handed to clean_number directly

DEFAULT_CHUNK_SIZE == 30

SupplyTypes == {"supplier_top", "supplier_2ry", "pilot_top", "pilot_2ry"}

Txt0 == <<"0">>
Txt50 == <<"5", "0">>
Txt100 == <<"1", "0", "0">>
Txt500 == <<"5", "0", "0">>
Txt1000 == <<"1", "0", "0", "0">>
Txt1000nbsp == <<"1", NBSP, "0", "0", "0">>
TxtBlank == <<" ">>

\* species tables: two rows, in file order
SpeciesTables ==
    { << [Species |-> "A", SeedsKg |-> Txt1000, Germ |-> Txt100],
         [Species |-> "B", SeedsKg |-> Txt100, Germ |-> gB] >> :
      gB \in {Txt50, NA} }

DensityVals == {R(0), R(10000)}
ChunkVals == {1, DEFAULT_CHUNK_SIZE}

StockRowVals ==
    { [Specie |-> "A", Supply_Type |-> "supplier_top", Total_MORFO_Supply_Kg |-> Txt1000],
      [Specie |-> "A", Supply_Type |-> "pilot_top", Total_MORFO_Supply_Kg |-> Txt500],
      [Specie |-> "B", Supply_Type |-> "supplier_top", Total_MORFO_Supply_Kg |-> Txt1000nbsp],
      [Specie |-> "B", Supply_Type |-> "supplier_2ry", Total_MORFO_Supply_Kg |-> TxtBlank] }

StockTables == {t \in SUBSET StockRowVals : Cardinality(t) >= 3}

ChosenVals == {c \in SUBSET SupplyTypes : c \subseteq {"supplier_top", "pilot_top"}}

RegionKeys == {1, 2}
RegionSpecies == {"A", "B", "C"}     \* "C" has no row in the species table

RegionTables ==
    { t \in SUBSET (RegionKeys \X RegionSpecies) :
        /\ \E s \in RegionSpecies : <<1, s>> \in t
        /\ <<2, "C">> \notin t }

AreaRowVals ==
    { [regionkey |-> 1, Area |-> R(1), area_potential |-> <<"1">>],
      [regionkey |-> 1, Area |-> R(3), area_potential |-> Txt0],
      [regionkey |-> 2, Area |-> R(1), area_potential |-> <<"1">>] }

AreaTables ==
    { t \in SUBSET AreaRowVals :
        /\ \E a \in t : a.regionkey = 1
        /\ \A a, b \in t : a.regionkey = b.regionkey => a = b }

----------------------------------------------------------------------------
(* Table helpers *)

RECURSIVE SetToSeq(_)
SetToSeq(S) ==
    IF S = {} THEN <<>>
    ELSE LET x == CHOOSE y \in S : TRUE IN <<x>> \o SetToSeq(S \ {x})

RECURSIVE SeqSum(_)
SeqSum(s) == IF s = <<>> THEN R(0) ELSE FAdd(Head(s), SeqSum(Tail(s)))

\* pandas sum(): missing values are skipped, an empty sum is 0
SumSkipNa(s) == SeqSum(SelectSeq(s, LAMBDA x : ~IsNaN(x)))

Col(rows, f(_)) == [i \in 1..Len(rows) |-> f(rows[i])]

----------------------------------------------------------------------------
(* load_and_compute_kg_per_ha *)

ChunkIndex(i, size) == (i - 1) \div size      \* df.index // chunk_size, index from 0

\* groupby('chunk_index')['Weight'].transform('sum') at row i
SumOfWeights(w, ci, i) ==
    SeqSum(SelectSeq([j \in 1..Len(w) |-> IF ci[j] = ci[i] THEN w[j] ELSE NaN],
                     LAMBDA x : ~IsNaN(x)))

SeedsPerHa(td, sow, w, germ) == FDiv(FMul(FDiv(td, sow), w), germ)

ComputeKgPerHa(csv, td, size) ==
    LET n == Len(csv)
        seeds == [i \in 1..n |-> clean_number(AsTypeStr(csv[i].SeedsKg))]
        germ == [i \in 1..n |-> clean_number(AsTypeStr(csv[i].Germ))]
    IN  IF \E i \in 1..n : seeds[i].raised \/ germ[i].raised THEN Raised
        ELSE LET ci == [i \in 1..n |-> ChunkIndex(i, size)]
                 w == [i \in 1..n |-> get_weight(seeds[i].val)]
                 sow == [i \in 1..n |-> SumOfWeights(w, ci, i)]
                 sha == [i \in 1..n |-> SeedsPerHa(td, sow[i], w[i], germ[i].val)]
             IN  Returned([i \in 1..n |->
                    [Species |-> csv[i].Species,
                     SeedsKg |-> seeds[i].val,
                     Germ |-> germ[i].val,
                     chunk_index |-> ci[i],
                     Weight |-> w[i],
                     sum_of_weights |-> sow[i],
                     SeedsHa |-> sha[i],
                     KgHa |-> FDiv(sha[i], seeds[i].val)]])

----------------------------------------------------------------------------
(* load_stocks_data, combine_suppliers, merge_stock_and_kg_per_ha *)

LoadStocksData(csv) ==
    LET q == [r \in csv |-> clean_number(AsTypeStr(r.Total_MORFO_Supply_Kg))]
    IN  IF \E r \in csv : q[r].raised THEN Raised
        ELSE Returned({[Specie |-> r.Specie, Supply_Type |-> r.Supply_Type,
                        Total_MORFO_Supply_Kg |-> q[r].val] : r \in csv})

QtySum(rows) == SumSkipNa(Col(SetToSeq(rows), LAMBDA r : r.Total_MORFO_Supply_Kg))

CombineAllSuppliers(stocks, chosen) ==
    [sp \in {r.Specie : r \in stocks} |-> QtySum({r \in stocks : r.Specie = sp})]

\* the result maps each species of the filtered rows to its Combined_Stock
combine_suppliers(stocks, chosen) ==
    LET df_filtered == {r \in stocks : r.Supply_Type \in chosen}
    IN  [sp \in {r.Specie : r \in df_filtered} |->
            QtySum({r \in df_filtered : r.Specie = sp})]

\* left merge on 'Specie': every species row is kept, stock missing -> NaN
merge_stock_and_kg_per_ha(req, combined) ==
    [i \in 1..Len(req) |->
        [Specie |-> req[i].Species,
         SeedsKg |-> req[i].SeedsKg,
         Germ |-> req[i].Germ,
         chunk_index |-> req[i].chunk_index,
         Weight |-> req[i].Weight,
         sum_of_weights |-> req[i].sum_of_weights,
         SeedsHa |-> req[i].SeedsHa,
         KgHa |-> req[i].KgHa,
         Combined_Stock |-> IF req[i].Species \in DOMAIN combined
                            THEN combined[req[i].Species] ELSE NaN]]

----------------------------------------------------------------------------
(* load_area_data and the region x area join of main() *)

LoadAreaData(csv) ==
    LET a == [r \in csv |-> clean_number(AsTypeStr(r.area_potential))]
    IN  IF \E r \in csv : a[r].raised THEN Raised
        ELSE Returned({[regionkey |-> r.regionkey, Area |-> r.Area,
                        area_potential |-> a[r].val] : r \in csv})

\* pd.merge(df_region, df_area, on='regionkey', how='left')
MergeRegionAreas(region, area) ==
    UNION { LET m == {a \in area : a.regionkey = rr[1]}
            IN  IF m = {}
                THEN {[regionkey |-> rr[1], State |-> "S", Specie |-> rr[2],
                       Area |-> NaN, area_potential |-> NaN]}
                ELSE {[regionkey |-> rr[1], State |-> "S", Specie |-> rr[2],
                       Area |-> a.Area, area_potential |-> a.area_potential] : a \in m}
          : rr \in region }

----------------------------------------------------------------------------
(* distribute_stock *)

AreaOf(row, potential) == IF potential THEN row.area_potential ELSE row.Area

\* step 1: pd.merge(df_region_areas, df_merged, on='Specie', how='left')
JoinSpecies(region_areas, merged) ==
    UNION { LET m == {i \in 1..Len(merged) : merged[i].Specie = rr.Specie}
            IN  IF m = {}
                THEN {[rr |-> rr, SeedsKg |-> NaN, Germ |-> NaN, Weight |-> NaN,
                       sum_of_weights |-> NaN, KgHa |-> NaN, Combined_Stock |-> NaN]}
                ELSE {[rr |-> rr, SeedsKg |-> merged[i].SeedsKg, Germ |-> merged[i].Germ,
                       Weight |-> merged[i].Weight,
                       sum_of_weights |-> merged[i].sum_of_weights,
                       KgHa |-> merged[i].KgHa,
                       Combined_Stock |-> merged[i].Combined_Stock] : i \in m}
          : rr \in region_areas }

\* step 2: groupby('Specie').agg({'STATE': 'count', area_col: 'sum'})
CountAppearances(dist, sp) ==
    Cardinality({d \in dist : d.rr.Specie = sp /\ d.rr.State # "NA"})

SumArea(dist, sp, potential) ==
    SumSkipNa(Col(SetToSeq({d \in dist : d.rr.Specie = sp}),
                  LAMBDA d : AreaOf(d.rr, potential)))

FillNa0(x) == IF IsNaN(x) THEN R(0) ELSE x

AllocatedNoCompose(stock, count, area, sum_area, by_count, by_area) ==
    IF by_area THEN FMul(stock, FDiv(area, sum_area))
    ELSE IF by_count THEN FDiv(stock, R(count))
    ELSE stock

\* steps 3 and 4
Allocated(stock, count, area, sum_area, by_count, by_area) ==
    LET a0 == stock
        a1 == IF by_count THEN FDiv(a0, R(count)) ELSE a0
    IN  IF by_area THEN FMul(a1, FDiv(area, sum_area)) ELSE a1

PossibleHaTimes(allocated, kg_per_ha) == FMul(allocated, kg_per_ha)

\* step 5
PossibleHa(allocated, kg_per_ha) == FDiv(allocated, kg_per_ha)

distribute_stock(merged, region_areas, by_count, by_area, potential) ==
    LET dist == JoinSpecies(region_areas, merged)
    IN  { LET cnt == CountAppearances(dist, d.rr.Specie)
              sa == SumArea(dist, d.rr.Specie, potential)
              stock == FillNa0(d.Combined_Stock)
              alloc == Allocated(stock, cnt, AreaOf(d.rr, potential), sa, by_count, by_area)
          IN  [regionkey |-> d.rr.regionkey,
               Specie |-> d.rr.Specie,
               Area |-> d.rr.Area,
               area_potential |-> d.rr.area_potential,
               SeedsKg |-> d.SeedsKg,
               Germ |-> d.Germ,
               Weight |-> d.Weight,
               sum_of_weights |-> d.sum_of_weights,
               KgHa |-> d.KgHa,
               Combined_Stock |-> stock,
               CountAppearances |-> cnt,
               SumArea |-> sa,
               allocated_stock |-> alloc,
               Possible_ha_distributed |-> PossibleHa(alloc, d.KgHa)]
        : d \in dist }

----------------------------------------------------------------------------
(* compute_threshold_factor, compute_species_count, final merge *)

DropNaOnly(dist) == {d \in dist : ~IsNaN(d.Possible_ha_distributed)}

\* dropna(subset=['Possible_ha_distributed']) then [... > 0]
ValidRows(dist) ==
    {d \in dist : ~IsNaN(d.Possible_ha_distributed)
                  /\ FGt(d.Possible_ha_distributed, R(0))}

BeforeAscending(a, b) ==
    \/ a.regionkey < b.regionkey
    \/ a.regionkey = b.regionkey
       /\ FLt(a.Possible_ha_distributed, b.Possible_ha_distributed)

\* sort_values(['regionkey', 'Possible_ha_distributed'], ascending=[True, False]);
\* rows with equal keys come out in an order this definition fixes arbitrarily
Before(a, b) ==
    \/ a.regionkey < b.regionkey
    \/ a.regionkey = b.regionkey
       /\ FGt(a.Possible_ha_distributed, b.Possible_ha_distributed)

RECURSIVE SortRows(_)
SortRows(S) ==
    IF S = {} THEN <<>>
    ELSE LET first == CHOOSE r \in S : \A o \in S : ~Before(o, r)
         IN  <<first>> \o SortRows(S \ {first})

\* groupby('regionkey').apply(lambda g: g.head(n))
PickTopN(sorted, n) ==
    LET rank(i) == Cardinality({j \in 1..(i - 1) : sorted[j].regionkey = sorted[i].regionkey})
        keep == {i \in 1..Len(sorted) : rank(i) < n}
    IN  SelectSeq([i \in 1..Len(sorted) |-> IF i \in keep THEN sorted[i] ELSE None],
                  LAMBDA r : r # None)

FMin(S) == CHOOSE x \in S : \A y \in S : FLe(x, y)

SeqRows(sq) == {sq[i] : i \in 1..Len(sq)}

GroupMin(top, r) ==
    FMin({d.Possible_ha_distributed : d \in {x \in SeqRows(top) : x.regionkey = r}})

\* df_min['NumSpeciesUsed'] = n_species
NumSpeciesUsed(top, r, n) == n

ThresholdTable(top, n) ==
    [r \in {d.regionkey : d \in SeqRows(top)} |->
        [Threshold_ha |-> GroupMin(top, r),
         NumSpeciesUsed |-> NumSpeciesUsed(top, r, n)]]

compute_species_count(dist) ==
    [r \in {d.regionkey : d \in dist} |->
        Cardinality({d.Specie : d \in {x \in dist : x.regionkey = r}})]

\* pd.merge(df_threshold, df_count, on='regionkey', how='left')
MergeThresholdCount(th, cnt) ==
    [r \in DOMAIN th |->
        [Threshold_ha |-> th[r].Threshold_ha,
         NumSpeciesUsed |-> th[r].NumSpeciesUsed,
         species_count |-> IF r \in DOMAIN cnt THEN cnt[r] ELSE None]]

----------------------------------------------------------------------------
(* The pipeline of main(): one action per call *)

PipeInit ==
    /\ pc = "start"
    /\ target_density = None
    /\ chunk_size = None
    /\ chosen_suppliers = None
    /\ use_species_count = None
    /\ use_relative_area = None
    /\ use_area_potential = None
    /\ n_species = None
    /\ df_species_req = None
    /\ df_stocks = None
    /\ df_stocks_combined = None
    /\ df_merged = None
    /\ df_region_areas = None
    /\ df_distributed = None
    /\ df_valid = None
    /\ df_top_n = None
    /\ df_threshold = None
    /\ df_count = None
    /\ df_map = None

Init ==
    /\ PipeInit
    /\ in_str = None
    /\ out_clean = None
    /\ in_seeds = None
    /\ out_weight = None

LoadSpecies ==
    /\ pc = "start"
    /\ \E csv \in SpeciesTables, td \in DensityVals, size \in ChunkVals :
         LET res == ComputeKgPerHa(csv, td, size)
         IN  /\ target_density' = td
             /\ chunk_size' = size
             /\ IF res.raised
                THEN pc' = "error" /\ UNCHANGED df_species_req
                ELSE pc' = "species" /\ df_species_req' = res.val
    /\ UNCHANGED <<chosen_suppliers, use_species_count, use_relative_area,
                   use_area_potential, n_species, df_stocks, df_stocks_combined,
                   df_merged, df_region_areas, df_distributed, df_valid, df_top_n,
                   df_threshold, df_count, df_map, in_str, out_clean, in_seeds,
                   out_weight>>

LoadStocks ==
    /\ pc = "species"
    /\ \E csv \in StockTables :
         LET res == LoadStocksData(csv)
         IN  IF res.raised
             THEN pc' = "error" /\ UNCHANGED df_stocks
             ELSE pc' = "stocks" /\ df_stocks' = res.val
    /\ UNCHANGED <<target_density, chunk_size, chosen_suppliers, use_species_count,
                   use_relative_area, use_area_potential, n_species, df_species_req,
                   df_stocks_combined, df_merged, df_region_areas, df_distributed,
                   df_valid, df_top_n, df_threshold, df_count, df_map, in_str,
                   out_clean, in_seeds, out_weight>>

CombineSuppliers ==
    /\ pc = "stocks"
    /\ \E chosen \in ChosenVals :
         /\ chosen_suppliers' = chosen
         /\ df_stocks_combined' = combine_suppliers(df_stocks, chosen)
    /\ pc' = "combined"
    /\ UNCHANGED <<target_density, chunk_size, use_species_count, use_relative_area,
                   use_area_potential, n_species, df_species_req, df_stocks,
                   df_merged, df_region_areas, df_distributed, df_valid, df_top_n,
                   df_threshold, df_count, df_map, in_str, out_clean, in_seeds,
                   out_weight>>

MergeStock ==
    /\ pc = "combined"
    /\ df_merged' = merge_stock_and_kg_per_ha(df_species_req, df_stocks_combined)
    /\ pc' = "merged"
    /\ UNCHANGED <<target_density, chunk_size, chosen_suppliers, use_species_count,
                   use_relative_area, use_area_potential, n_species, df_species_req,
                   df_stocks, df_stocks_combined, df_region_areas, df_distributed,
                   df_valid, df_top_n, df_threshold, df_count, df_map, in_str,
                   out_clean, in_seeds, out_weight>>

LoadRegionAreas ==
    /\ pc = "merged"
    /\ \E region \in RegionTables, csv \in AreaTables :
         LET res == LoadAreaData(csv)
         IN  IF res.raised
             THEN pc' = "error" /\ UNCHANGED df_region_areas
             ELSE /\ pc' = "regions"
                  /\ df_region_areas' = MergeRegionAreas(region, res.val)
    /\ UNCHANGED <<target_density, chunk_size, chosen_suppliers, use_species_count,
                   use_relative_area, use_area_potential, n_species, df_species_req,
                   df_stocks, df_stocks_combined, df_merged, df_distributed, df_valid,
                   df_top_n, df_threshold, df_count, df_map, in_str, out_clean,
                   in_seeds, out_weight>>

DistributeStock ==
    /\ pc = "regions"
    /\ \E by_count \in BOOLEAN, distribute_area \in BOOLEAN, potential \in BOOLEAN :
         /\ distribute_area \/ ~potential
         /\ use_species_count' = by_count
         /\ use_relative_area' = distribute_area
         /\ use_area_potential' = potential
         /\ df_distributed' = distribute_stock(df_merged, df_region_areas,
                                               by_count, distribute_area, potential)
    /\ pc' = "distributed"
    /\ UNCHANGED <<target_density, chunk_size, chosen_suppliers, n_species,
                   df_species_req, df_stocks, df_stocks_combined, df_merged,
                   df_region_areas, df_valid, df_top_n, df_threshold, df_count,
                   df_map, in_str, out_clean, in_seeds, out_weight>>

ComputeThreshold ==
    /\ pc = "distributed"
    /\ \E n \in 1..MaxN :
         LET sorted == SortRows(ValidRows(df_distributed))
             top == PickTopN(sorted, n)
         IN  /\ n_species' = n
             /\ df_valid' = sorted
             /\ df_top_n' = top
             /\ df_threshold' = ThresholdTable(top, n)
    /\ pc' = "threshold"
    /\ UNCHANGED <<target_density, chunk_size, chosen_suppliers, use_species_count,
                   use_relative_area, use_area_potential, df_species_req, df_stocks,
                   df_stocks_combined, df_merged, df_region_areas, df_distributed,
                   df_count, df_map, in_str, out_clean, in_seeds, out_weight>>

ComputeSpeciesCount ==
    /\ pc = "threshold"
    /\ df_count' = compute_species_count(df_distributed)
    /\ pc' = "count"
    /\ UNCHANGED <<target_density, chunk_size, chosen_suppliers, use_species_count,
                   use_relative_area, use_area_potential, n_species, df_species_req,
                   df_stocks, df_stocks_combined, df_merged, df_region_areas,
                   df_distributed, df_valid, df_top_n, df_threshold, df_map, in_str,
                   out_clean, in_seeds, out_weight>>

MergeMap ==
    /\ pc = "count"
    /\ df_map' = MergeThresholdCount(df_threshold, df_count)
    /\ pc' = "done"
    /\ UNCHANGED <<target_density, chunk_size, chosen_suppliers, use_species_count,
                   use_relative_area, use_area_potential, n_species, df_species_req,
                   df_stocks, df_stocks_combined, df_merged, df_region_areas,
                   df_distributed, df_valid, df_top_n, df_threshold, df_count, in_str,
                   out_clean, in_seeds, out_weight>>

Next ==
    \/ LoadSpecies
    \/ LoadStocks
    \/ CombineSuppliers
    \/ MergeStock
    \/ LoadRegionAreas
    \/ DistributeStock
    \/ ComputeThreshold
    \/ ComputeSpeciesCount
    \/ MergeMap

Spec == Init /\ [][Next]_vars

----------------------------------------------------------------------------
(* combine_suppliers on its own: any stock table, any selection *)

QtyVals == {NaN, R(500), R(1000)}

StockDfs ==
    { {[Specie |-> k[1], Supply_Type |-> k[2], Total_MORFO_Supply_Kg |-> f[k]] :
          k \in DOMAIN f} :
      f \in UNION { [ks -> QtyVals] :
                    ks \in SUBSET ({"A", "B"} \X {"supplier_top", "pilot_top", "pilot_2ry"}) } }

StockInit ==
    /\ pc = "stocks"
    /\ target_density = None
    /\ chunk_size = None
    /\ chosen_suppliers = None
    /\ use_species_count = None
    /\ use_relative_area = None
    /\ use_area_potential = None
    /\ n_species = None
    /\ df_species_req = None
    /\ df_stocks \in StockDfs
    /\ df_stocks_combined = None
    /\ df_merged = None
    /\ df_region_areas = None
    /\ df_distributed = None
    /\ df_valid = None
    /\ df_top_n = None
    /\ df_threshold = None
    /\ df_count = None
    /\ df_map = None
    /\ in_str = None
    /\ out_clean = None
    /\ in_seeds = None
    /\ out_weight = None

StockNext == CombineSuppliers

SpecStock == StockInit /\ [][StockNext]_vars

----------------------------------------------------------------------------
(* distribute_stock on its own: any merged table, any region x area join *)

CombinedVals ==
    UNION { [ks -> {R(1200)}] : ks \in SUBSET {"A", "B"} }

MergedDfs ==
    { merge_stock_and_kg_per_ha(ComputeKgPerHa(csv, R(10000), DEFAULT_CHUNK_SIZE).val, c) :
      csv \in SpeciesTables, c \in CombinedVals }

AreaPairs == { <<R(1), R(1)>>, <<R(3), R(0)>>, <<R(0), R(2)>>, <<NaN, NaN>> }

RegionAreaDfs ==
    { {[regionkey |-> rr[1], State |-> "S", Specie |-> rr[2],
        Area |-> ar[rr[1]][1], area_potential |-> ar[rr[1]][2]] : rr \in t} :
      t \in (SUBSET (RegionKeys \X RegionSpecies)) \ {{}},
      ar \in [RegionKeys -> AreaPairs] }

AllocInit ==
    /\ pc = "regions"
    /\ target_density = R(10000)
    /\ chunk_size = DEFAULT_CHUNK_SIZE
    /\ chosen_suppliers = None
    /\ use_species_count = None
    /\ use_relative_area = None
    /\ use_area_potential = None
    /\ n_species = None
    /\ df_species_req = None
    /\ df_stocks = None
    /\ df_stocks_combined = None
    /\ df_merged \in MergedDfs
    /\ df_region_areas \in RegionAreaDfs
    /\ df_distributed = None
    /\ df_valid = None
    /\ df_top_n = None
    /\ df_threshold = None
    /\ df_count = None
    /\ df_map = None
    /\ in_str = None
    /\ out_clean = None
    /\ in_seeds = None
    /\ out_weight = None

AllocNext == DistributeStock

SpecAlloc == AllocInit /\ [][AllocNext]_vars

----------------------------------------------------------------------------
(* The summarizer on its own: any allocation table, any n_species *)

HaVals == {NaN, NegInf, R(-1), R(0), R(1), R(2), PosInf}

AllocKeys == (RegionKeys \X RegionSpecies) \ {<<2, "C">>}

AllocDfs ==
    { {[regionkey |-> k[1], Specie |-> k[2], Possible_ha_distributed |-> f[k]] :
          k \in DOMAIN f} :
      f \in UNION { [ks -> HaVals] : ks \in (SUBSET AllocKeys) \ {{}} } }

SummaryInit ==
    /\ pc = "distributed"
    /\ target_density = None
    /\ chunk_size = None
    /\ chosen_suppliers = None
    /\ use_species_count = None
    /\ use_relative_area = None
    /\ use_area_potential = None
    /\ n_species = None
    /\ df_species_req = None
    /\ df_stocks = None
    /\ df_stocks_combined = None
    /\ df_merged = None
    /\ df_region_areas = None
    /\ df_distributed \in AllocDfs
    /\ df_valid = None
    /\ df_top_n = None
    /\ df_threshold = None
    /\ df_count = None
    /\ df_map = None
    /\ in_str = None
    /\ out_clean = None
    /\ in_seeds = None
    /\ out_weight = None

SummaryNext ==
    \/ ComputeThreshold
    \/ ComputeSpeciesCount
    \/ MergeMap

SpecSummary == SummaryInit /\ [][SummaryNext]_vars

----------------------------------------------------------------------------
(* get_weight on its own *)

WeightBounds == {0, 500, 2000, 5000, 10000, 20000, 80000, 200000}

SeedsVals ==
    {R(b + k) : b \in WeightBounds, k \in {-1, 0, 1}}
      \cup {<<2 * b + 1, 2>> : b \in WeightBounds}
      \cup {<<2 * b - 1, 2>> : b \in WeightBounds}
      \cup {R(100), R(1000), NaN, PosInf, NegInf}

WeightInit ==
    /\ PipeInit
    /\ in_str = None
    /\ out_clean = None
    /\ in_seeds \in SeedsVals \X SeedsVals
    /\ out_weight = None

\* two calls, so that results can be compared
GetWeight ==
    /\ out_weight = None
    /\ out_weight' = <<get_weight(in_seeds[1]), get_weight(in_seeds[2])>>
    /\ UNCHANGED <<pipeVars, in_str, out_clean, in_seeds>>

WeightNext == GetWeight

SpecWeight == WeightInit /\ [][WeightNext]_vars

----------------------------------------------------------------------------
(* clean_number on its own *)

CleanAlphabet == {"1", "5", ",", ".", " ", NBSP, NNBSP, "x"}

CleanInputs ==
    {NA} \cup UNION { [1..k -> CleanAlphabet] : k \in 0..MaxStrLen }

CleanInit ==
    /\ PipeInit
    /\ in_str \in CleanInputs
    /\ out_clean = None
    /\ in_seeds = None
    /\ out_weight = None

CleanNumber ==
    /\ out_clean = None
    /\ out_clean' = clean_number(in_str)
    /\ UNCHANGED <<pipeVars, in_str, in_seeds, out_weight>>

CleanNext == CleanNumber

SpecClean == CleanInit /\ [][CleanNext]_vars

----------------------------------------------------------------------------
(* Properties of the summarizer *)

Summarized == pc \in {"threshold", "count", "done"}

Min2(a, b) == IF a < b THEN a ELSE b

\* a plantable-hectare value that is present and positive
PresentPositive(x) == x # NaN /\ x[1] > 0

PositiveRows(r) ==
    {d \in df_distributed :
        d.regionkey = r /\ PresentPositive(d.Possible_ha_distributed)}

\* the ranking of region r: its rows in df_valid, in df_valid's order
Ranked(r) == SelectSeq(df_valid, LAMBDA d : d.regionkey = r)

\* C1: for every region with at least one present, positive plantable_hectares,
\* threshold_hectares is the minimum over the region's top n_species rows by
\* plantable_hectares descending, rows with missing or non-positive values set
\* aside: it is one of the region's positive values, fewer than n_species
\* positive rows lie strictly above it, and at least min(n_species, number of
\* positive rows) lie at or above it.
C1_ThresholdIsMinOfTopN ==
    Summarized =>
      \A r \in RegionKeys :
        PositiveRows(r) # {} =>
          /\ r \in DOMAIN df_threshold
          /\ LET t == df_threshold[r].Threshold_ha
                 above == {d \in PositiveRows(r) : FGt(d.Possible_ha_distributed, t)}
                 atOrAbove == {d \in PositiveRows(r) : FLe(t, d.Possible_ha_distributed)}
             IN  /\ \E d \in PositiveRows(r) : d.Possible_ha_distributed = t
                 /\ Cardinality(above) < n_species
                 /\ Cardinality(atOrAbove) >=
                       Min2(n_species, Cardinality(PositiveRows(r)))

C1_Witness ==
    /\ pc = "threshold"
    /\ n_species = 2
    /\ {d.Possible_ha_distributed : d \in PositiveRows(1)} = {R(1), R(2), PosInf}
    /\ \E d \in df_distributed : d.Possible_ha_distributed \in {NaN, R(0), R(-1)}
    /\ df_threshold[1].Threshold_ha = R(2)

\* C2: for every region of the threshold output, NumSpeciesUsed equals
\* min(n_species, number of rows of the region with a present, positive
\* plantable_hectares).
C2_SpeciesUsedIsMin ==
    Summarized =>
      \A r \in DOMAIN df_threshold :
        df_threshold[r].NumSpeciesUsed = Min2(n_species, Cardinality(PositiveRows(r)))

\* C3: every region_key with a row in the allocation table appears in the final
\* table with its species_count, also when it has no valid positive allocation.
C3_EveryRegionInFinalTable ==
    pc = "done" =>
      \A r \in {d.regionkey : d \in df_distributed} :
        /\ r \in DOMAIN df_map
        /\ df_map[r].species_count =
              Cardinality({d.Specie : d \in {x \in df_distributed : x.regionkey = r}})

\* the ranking of r lists exactly r's positive rows, in non-increasing order
RankingSound(r) ==
    /\ SeqRows(Ranked(r)) = PositiveRows(r)
    /\ Len(Ranked(r)) = Cardinality(PositiveRows(r))
    /\ \A i, j \in 1..Len(Ranked(r)) :
         i < j => FLe(Ranked(r)[j].Possible_ha_distributed,
                      Ranked(r)[i].Possible_ha_distributed)

\* C6 (as amended): threshold_hectares is at most the plantable_hectares of each
\* of the region's top n_species ranked rows, and at least that of the
\* (n_species+1)-th ranked valid row whenever that row exists.
C6_ThresholdBetweenRanks ==
    Summarized =>
      \A r \in DOMAIN df_threshold :
        /\ RankingSound(r)
        /\ \A i \in 1..Min2(n_species, Len(Ranked(r))) :
             FLe(df_threshold[r].Threshold_ha, Ranked(r)[i].Possible_ha_distributed)
        /\ Len(Ranked(r)) > n_species =>
             FLe(Ranked(r)[n_species + 1].Possible_ha_distributed,
                 df_threshold[r].Threshold_ha)

C6_Witness ==
    /\ pc = "threshold"
    /\ n_species = 1
    /\ Len(Ranked(1)) = 3
    /\ Ranked(1)[1].Possible_ha_distributed = PosInf
    /\ Ranked(1)[2].Possible_ha_distributed = R(2)
    /\ Ranked(1)[3].Possible_ha_distributed = R(1)
    /\ df_threshold[1].Threshold_ha = PosInf

\* C6 (as stated): ... and strictly less than the plantable_hectares of the
\* (n_species+1)-th ranked valid row whenever that row exists.
C6_StrictlyBelowNext ==
    Summarized =>
      \A r \in DOMAIN df_threshold :
        /\ \A i \in 1..Min2(n_species, Len(Ranked(r))) :
             FLe(df_threshold[r].Threshold_ha, Ranked(r)[i].Possible_ha_distributed)
        /\ Len(Ranked(r)) > n_species =>
             FLt(df_threshold[r].Threshold_ha,
                 Ranked(r)[n_species + 1].Possible_ha_distributed)

\* C5: no row with a not-a-number, infinite or non-positive plantable_hectares
\* is in a top-n slice, and every threshold_hectares is finite and positive.
C5_ThresholdFinitePositive ==
    Summarized =>
      /\ \A i \in 1..Len(df_top_n) :
           /\ IsFinite(df_top_n[i].Possible_ha_distributed)
           /\ df_top_n[i].Possible_ha_distributed[1] > 0
      /\ \A r \in DOMAIN df_threshold :
           /\ IsFinite(df_threshold[r].Threshold_ha)
           /\ df_threshold[r].Threshold_ha[1] > 0

----------------------------------------------------------------------------
(* Properties of the allocation engine *)

RowsOfSpecies(sp) == {d \in df_distributed : d.Specie = sp}

RowArea(d) == IF use_area_potential THEN d.area_potential ELSE d.Area

AreaTotal(sp) == SeqSum(Col(SetToSeq(RowsOfSpecies(sp)), RowArea))

AllocatedTotal(sp) ==
    SeqSum(Col(SetToSeq(RowsOfSpecies(sp)), LAMBDA d : d.allocated_stock))

StockOfSpecies(sp) == (CHOOSE d \in RowsOfSpecies(sp) : TRUE).Combined_Stock

\* every eligible region of sp has a present area, and the areas do not sum to 0
AreasUsable(sp) ==
    /\ \A d \in RowsOfSpecies(sp) : ~IsNaN(RowArea(d))
    /\ AreaTotal(sp) # R(0)

\* C4 (as amended): with use_relative_area = true, for every species whose
\* eligible regions all have a present area and a non-zero area sum, the
\* allocated_stock over its eligible regions sums to combined_stock when
\* use_species_count is false, and to combined_stock / occurrence_count when
\* use_species_count is true.
C4_AreaSharesConserveStock ==
    (pc = "distributed" /\ use_relative_area) =>
      \A sp \in {d.Specie : d \in df_distributed} :
        AreasUsable(sp) =>
          AllocatedTotal(sp) =
            IF use_species_count
            THEN FDiv(StockOfSpecies(sp), R(Cardinality(RowsOfSpecies(sp))))
            ELSE StockOfSpecies(sp)

C4_Witness ==
    /\ pc = "distributed"
    /\ use_relative_area
    /\ use_species_count
    /\ ~use_area_potential
    /\ AreasUsable("A")
    /\ StockOfSpecies("A") = R(1200)
    /\ {d.allocated_stock : d \in RowsOfSpecies("A")} = {R(150), R(450)}

\* C4 (as stated): with use_relative_area = true and either value of
\* use_species_count, the allocated_stock of such a species sums to combined_stock.
C4_ConservesForEitherCountFlag ==
    (pc = "distributed" /\ use_relative_area) =>
      \A sp \in {d.Specie : d \in df_distributed} :
        AreasUsable(sp) => AllocatedTotal(sp) = StockOfSpecies(sp)

----------------------------------------------------------------------------
(* Properties of get_weight *)

WeightTable ==
    << <<0, R(0)>>, <<500, Half>>, <<2000, R(1)>>, <<5000, R(2)>>, <<10000, R(4)>>,
       <<20000, R(8)>>, <<80000, R(10)>>, <<200000, R(12)>> >>

\* the label of the first bucket whose inclusive upper bound is not below x
TableWeight(x) ==
    LET hit == {i \in 1..Len(WeightTable) : FLe(x, R(WeightTable[i][1]))}
    IN  IF hit = {} THEN R(14)
        ELSE WeightTable[CHOOSE i \in hit : \A j \in hit : i <= j][2]

\* C7: get_weight is non-decreasing and equals the piecewise-constant table
\* with inclusive upper bounds; weight(500) = 0.5, weight(501) = 1.0,
\* weight(0) = 0.0, weight(200001) = 14.0.
C7_WeightTableMonotone ==
    out_weight # None =>
      /\ \A k \in 1..2 :
           /\ out_weight[k] = TableWeight(in_seeds[k])
           /\ in_seeds[k] = R(500) => out_weight[k] = Half
           /\ in_seeds[k] = R(501) => out_weight[k] = R(1)
           /\ in_seeds[k] = R(0) => out_weight[k] = R(0)
           /\ in_seeds[k] = R(200001) => out_weight[k] = R(14)
      /\ FLe(in_seeds[1], in_seeds[2]) => FLe(out_weight[1], out_weight[2])

C7_Witness ==
    /\ in_seeds = <<R(500), R(501)>>
    /\ out_weight = <<Half, R(1)>>

----------------------------------------------------------------------------
(* Properties of combine_suppliers *)

SelectedRecords == {r \in df_stocks : r.Supply_Type \in chosen_suppliers}

\* C8: one row per species with a record of a selected type, none for the other
\* species, and the combined_stock values add up to the quantity_kg of exactly
\* the selected records (a missing quantity adds nothing to either side).
C8_CombinedStockConserved ==
    pc = "combined" =>
      /\ DOMAIN df_stocks_combined = {r.Specie : r \in SelectedRecords}
      /\ SumSkipNa(Col(SetToSeq(DOMAIN df_stocks_combined),
                       LAMBDA sp : df_stocks_combined[sp]))
           = SumSkipNa(Col(SetToSeq(SelectedRecords),
                           LAMBDA r : r.Total_MORFO_Supply_Kg))

C8_Witness ==
    /\ pc = "combined"
    /\ chosen_suppliers = {"supplier_top", "pilot_top"}
    /\ df_stocks =
         { [Specie |-> "A", Supply_Type |-> "supplier_top", Total_MORFO_Supply_Kg |-> R(500)],
           [Specie |-> "A", Supply_Type |-> "pilot_top", Total_MORFO_Supply_Kg |-> R(1000)],
           [Specie |-> "A", Supply_Type |-> "pilot_2ry", Total_MORFO_Supply_Kg |-> R(1000)],
           [Specie |-> "B", Supply_Type |-> "pilot_2ry", Total_MORFO_Supply_Kg |-> R(500)] }
    /\ DOMAIN df_stocks_combined = {"A"}
    /\ df_stocks_combined["A"] = R(1500)

----------------------------------------------------------------------------
(* The end-to-end scenario *)

\* species (A, 1000, 100), (B, 100, 50); density 10000; chunk size 30; 1000 kg
\* of A, eligible in a single region; both distribution flags false
ScenarioRun ==
    /\ pc \in {"distributed", "threshold", "count", "done"}
    /\ target_density = R(10000)
    /\ chunk_size = DEFAULT_CHUNK_SIZE
    /\ Len(df_species_req) = 2
    /\ df_species_req[1].Species = "A"
    /\ df_species_req[1].SeedsKg = R(1000)
    /\ df_species_req[1].Germ = R(100)
    /\ df_species_req[2].Species = "B"
    /\ df_species_req[2].SeedsKg = R(100)
    /\ df_species_req[2].Germ = R(50)
    /\ "A" \in DOMAIN df_stocks_combined
    /\ df_stocks_combined["A"] = R(1000)
    /\ ~use_species_count
    /\ ~use_relative_area
    /\ Cardinality(RowsOfSpecies("A")) = 1

\* C9 (as amended): in the scenario both rows fall in chunk 0, weight(A) = 1.0,
\* weight(B) = 0.5, sum_of_weights = 1.5 and plantable_hectares(A) = 15000.
C9_ScenarioValues ==
    ScenarioRun =>
      /\ df_species_req[1].chunk_index = 0
      /\ df_species_req[2].chunk_index = 0
      /\ df_species_req[1].Weight = R(1)
      /\ df_species_req[2].Weight = Half
      /\ df_species_req[1].sum_of_weights = <<3, 2>>
      /\ df_species_req[2].sum_of_weights = <<3, 2>>
      /\ \A d \in RowsOfSpecies("A") : d.Possible_ha_distributed = R(15000)

C9_Witness ==
    /\ ScenarioRun
    /\ pc = "done"
    /\ \E d \in RowsOfSpecies("A") :
         /\ d.KgHa = <<1, 15>>
         /\ d.allocated_stock = R(1000)
         /\ d.Possible_ha_distributed = R(15000)

\* C9 (as stated): weight(A) = 4.0, weight(B) = 0.5, sum_of_weights = 4.5 and
\* plantable_hectares(A) is approximately 112.5.
C9_ScenarioAsStated ==
    ScenarioRun =>
      /\ df_species_req[1].chunk_index = 0
      /\ df_species_req[2].chunk_index = 0
      /\ df_species_req[1].Weight = R(4)
      /\ df_species_req[2].Weight = Half
      /\ df_species_req[1].sum_of_weights = <<9, 2>>
      /\ \A d \in RowsOfSpecies("A") :
           /\ FLt(R(112), d.Possible_ha_distributed)
           /\ FLt(d.Possible_ha_distributed, R(113))

----------------------------------------------------------------------------
(* Properties of clean_number *)

Spaces == {" ", NBSP, NNBSP}

\* a missing value, or a text that is empty once its spaces are stripped
EmptyOrMissing(s) == s = NA \/ \A i \in 1..Len(s) : s[i] \in Spaces

\* C10: clean_number returns not-a-number for every empty or missing input and
\* never raises an error for it.
C10_EmptyGivesNaN ==
    (out_clean # None /\ EmptyOrMissing(in_str)) => out_clean = Returned(NaN)

====
